---- MODULE Spec2Model ----
(***************************************************************************)
(* The LRU cache of package cache: a map from keys to nodes (store) and a  *)
(* circular doubly linked list of nodes (head, prev, next), guarded by one *)
(* cache-wide mutex.  Spec is the cache used by one caller (every public   *)
(* operation is one step); SpecC is the cache shared by several threads    *)
(* (every statement of a public operation is one step).                    *)
(***************************************************************************)
EXTENDS Integers, Sequences, FiniteSets, TLC

\* ------------------------------------------------------------------ bounds
MaxCapacity == 2
MaxRun == 4
NumThreads == 2

Keys == {"a", "b", "c"}
Values == {"1", "2"}
\* The keys the concurrent callers use.
SharedKeys == {"a", "b"}
Capacities == (-1) .. MaxCapacity
Threads == 1 .. NumThreads

\* ------------------------------------------------------------- the program
\* A nil *cacheNode.
NoNode == 0
\* The zero string, returned by Get on a miss.
NoValue == ""
\* No thread holds the mutex.
Unlocked == 0

VARIABLES
    nodes,      \* the heap: address -> cacheNode [prev, next, value, key]
    head,       \* LruCache.head
    capacity,   \* LruCache.capacity
    store,      \* LruCache.store: key -> address
    mutex,      \* LruCache.mutex: Unlocked or the thread holding it
    made,       \* NewCache returned a cache (no error)
    panicked,   \* a nil pointer was dereferenced
    given,      \* the capacity NewCache was called with
    hist,       \* the last two completed calls of the single caller
    run,        \* the Set calls made since the cache was last empty, or Broken
    uses,       \* cached keys, most recently used (inserted or read) first
    read,       \* cached keys read by a successful Get since their insertion
    pc,         \* per thread: the statement it is at
    call,       \* per thread: the call it is in and its local variables
    abs         \* the cache after the calls that have taken the mutex so far,
                \* each run in one piece in the order the mutex was taken

cvars == <<nodes, head, capacity, store, made, panicked, given>>
gvars == <<hist, run, uses, read>>
tvars == <<mutex, pc, call, abs>>
vars == <<nodes, head, capacity, store, mutex, made, panicked, given,
          hist, run, uses, read, pc, call, abs>>

\* The cache object as a value: the fields an operation reads and writes.
Cache == [nodes |-> nodes, head |-> head, store |-> store]

\* type cacheNode
cacheNode(p, n, v, k) == [prev |-> p, next |-> n, value |-> v, key |-> k]

\* `var node cacheNode`: a fresh address, the smallest one not in use.
NewAddress(c) ==
    CHOOSE i \in 1 .. (Cardinality(DOMAIN c.nodes) + 1) :
        /\ i \notin DOMAIN c.nodes
        /\ \A j \in 1 .. (i - 1) : j \in DOMAIN c.nodes

\* len(cache.store)
StoreLen(c) == Cardinality(DOMAIN c.store)

\* delete(cache.store, key)
MapDelete(s, k) == [x \in (DOMAIN s) \ {k} |-> s[x]]

\* cache.store[key] = node
MapPut(s, k, n) == [x \in (DOMAIN s) \cup {k} |-> IF x = k THEN n ELSE s[x]]

\* The addresses reachable from the set R through prev and next.
RECURSIVE Reach(_, _)
Reach(ns, R) ==
    LET S == R \cup {ns[i].prev : i \in R} \cup {ns[i].next : i \in R}
        T == S \cap DOMAIN ns
    IN  IF T = R THEN R ELSE Reach(ns, T)

\* The garbage collector: a node that neither the cache nor a local variable
\* (roots) reaches is gone.
Collect(c, roots) ==
    LET from == ({c.head} \cup {c.store[k] : k \in DOMAIN c.store} \cup roots)
                    \cap DOMAIN c.nodes
        live == Reach(c.nodes, from)
    IN  [c EXCEPT !.nodes = [i \in live |-> c.nodes[i]]]

\* addToHead creates a new node and makes it the head of the list.
addToHead(c, key, value) ==
    LET node == NewAddress(c)
    IN  IF c.head = NoNode
        THEN [cache |-> [c EXCEPT
                  !.nodes = [i \in DOMAIN c.nodes \cup {node} |->
                      IF i = node THEN cacheNode(node, node, value, key)
                      ELSE c.nodes[i]],
                  !.head = node],
              node |-> node]
        ELSE LET oldPrev == c.nodes[c.head].prev
                 n0 == [i \in DOMAIN c.nodes \cup {node} |->
                          IF i = node
                          THEN cacheNode(oldPrev, c.head, value, key)
                          ELSE c.nodes[i]]
                 \* cache.head.prev.next = &node
                 n1 == [n0 EXCEPT ![n0[c.head].prev].next = node]
                 \* cache.head.prev = &node
                 n2 == [n1 EXCEPT ![c.head].prev = node]
             IN  [cache |-> [c EXCEPT !.nodes = n2, !.head = node],
                  node |-> node]

\* addToTail without the shift of head: the new node stays at the head.
addToTailNoShift(c, key, value) == addToHead(c, key, value)

\* addToTail adds a new node to the end of the list: the new node goes in
\* at the head and the head moves one node on.
addToTail(c, key, value) ==
    LET r == addToHead(c, key, value)
    IN  [cache |-> [r.cache EXCEPT !.head = r.cache.nodes[r.cache.head].next],
         node |-> r.node]

\* removeFromList that leaves node.next.prev as it was.
removeFromListOneWay(c, node) ==
    IF c.nodes[node].next = node
    THEN [c EXCEPT !.head = NoNode]
    ELSE LET h == IF node = c.head THEN c.nodes[node].next ELSE c.head
             n1 == [c.nodes EXCEPT ![c.nodes[node].prev].next = c.nodes[node].next]
         IN  [c EXCEPT !.nodes = n1, !.head = h]

\* removeFromList removes a node from the list.
removeFromList(c, node) ==
    IF c.nodes[node].next = node
    THEN [c EXCEPT !.head = NoNode]
    ELSE LET h == IF node = c.head THEN c.nodes[node].next ELSE c.head
             \* node.prev.next = node.next
             n1 == [c.nodes EXCEPT ![c.nodes[node].prev].next = c.nodes[node].next]
             \* node.next.prev = node.prev
             n2 == [n1 EXCEPT ![n1[node].next].prev = n1[node].prev]
         IN  [c EXCEPT !.nodes = n2, !.head = h]

\* What a public operation gives back: the cache after it, the returned
\* string and flag, the key it evicted ("" for none), and whether it
\* dereferenced nil.
Result(c, value, ok, evicted, panic) ==
    [cache |-> c, value |-> value, ok |-> ok, evicted |-> evicted, panic |-> panic]

\* Get that returns the value and leaves the node where it is.
GetOpNoPromote(c, key) ==
    IF key \notin DOMAIN c.store
    THEN Result(c, NoValue, FALSE, "", FALSE)
    ELSE Result(c, c.nodes[c.store[key]].value, TRUE, "", FALSE)

\* Get that leaves cache.store[key] pointing to the node it removed.
GetOpStaleStore(c, key) ==
    IF key \notin DOMAIN c.store
    THEN Result(c, NoValue, FALSE, "", FALSE)
    ELSE LET node == c.store[key]
             c1 == removeFromList(c, node)
             r == addToHead(c1, key, c1.nodes[node].value)
         IN  Result(Collect(r.cache, {}), r.cache.nodes[node].value, TRUE, "", FALSE)

\* Get that gives the new node the zero string, not the value of the old node.
GetOpZeroValue(c, key) ==
    IF key \notin DOMAIN c.store
    THEN Result(c, NoValue, FALSE, "", FALSE)
    ELSE LET node == c.store[key]
             c1 == removeFromList(c, node)
             r == addToHead(c1, key, NoValue)
             c2 == [r.cache EXCEPT !.store = MapPut(c1.store, key, r.node)]
         IN  Result(Collect(c2, {}), c2.nodes[node].value, TRUE, "", FALSE)

\* Get, between Lock and Unlock.
GetOp(c, key) ==
    IF key \notin DOMAIN c.store
    THEN Result(c, NoValue, FALSE, "", FALSE)
    ELSE LET node == c.store[key]
             c1 == removeFromList(c, node)
             r == addToHead(c1, key, c1.nodes[node].value)
             c2 == [r.cache EXCEPT !.store = MapPut(c1.store, key, r.node)]
         IN  Result(Collect(c2, {}), c2.nodes[node].value, TRUE, "", FALSE)

\* The Set of a new key that evicts the head node, not head.prev.
InsertEvictHead(c, key, value, evict) ==
    IF evict /\ c.head = NoNode
    THEN Result(c, NoValue, FALSE, "", TRUE)
    ELSE LET tail == IF evict THEN c.head ELSE NoNode
             c1 == IF evict
                   THEN [removeFromList(c, tail) EXCEPT
                            !.store = MapDelete(c.store, c.nodes[tail].key)]
                   ELSE c
             r == addToTail(c1, key, value)
             c2 == [r.cache EXCEPT !.store = MapPut(c1.store, key, r.node)]
         IN  Result(Collect(c2, {}), NoValue, FALSE,
                    IF evict THEN c.nodes[tail].key ELSE "", FALSE)

\* The Set of a new key: evict says whether the store is at capacity, and
\* then the tail is evicted first.
Insert(c, key, value, evict) ==
    IF evict /\ c.head = NoNode
    THEN Result(c, NoValue, FALSE, "", TRUE)
    ELSE LET tail == IF evict THEN c.nodes[c.head].prev ELSE NoNode
             c1 == IF evict
                   THEN [removeFromList(c, tail) EXCEPT
                            !.store = MapDelete(c.store, c.nodes[tail].key)]
                   ELSE c
             r == addToTail(c1, key, value)
             c2 == [r.cache EXCEPT !.store = MapPut(c1.store, key, r.node)]
         IN  Result(Collect(c2, {}), NoValue, FALSE,
                    IF evict THEN c.nodes[tail].key ELSE "", FALSE)

\* Set whose update moves the node to the head, as Get does.
SetOpRefresh(c, cap, key, value) ==
    IF key \in DOMAIN c.store
    THEN LET c1 == removeFromList(c, c.store[key])
             r == addToHead(c1, key, value)
         IN  Result(Collect([r.cache EXCEPT !.store = MapPut(c1.store, key, r.node)], {}),
                    NoValue, TRUE, "", FALSE)
    ELSE Insert(c, key, value, StoreLen(c) = cap)

\* Set that evicts only once the store is over capacity.
SetOpLateEvict(c, cap, key, value) ==
    IF key \in DOMAIN c.store
    THEN Result([c EXCEPT !.nodes[c.store[key]].value = value], NoValue, TRUE, "", FALSE)
    ELSE Insert(c, key, value, StoreLen(c) > cap)

\* Set whose update returns true and leaves the value as it was.
SetOpNoWrite(c, cap, key, value) ==
    IF key \in DOMAIN c.store
    THEN Result(c, NoValue, TRUE, "", FALSE)
    ELSE Insert(c, key, value, StoreLen(c) = cap)

\* Set whose update writes the value and returns false.
SetOpUpdateFalse(c, cap, key, value) ==
    IF key \in DOMAIN c.store
    THEN Result([c EXCEPT !.nodes[c.store[key]].value = value], NoValue, FALSE, "", FALSE)
    ELSE Insert(c, key, value, StoreLen(c) = cap)

\* Set, between Lock and Unlock.
SetOp(c, cap, key, value) ==
    IF key \in DOMAIN c.store
    THEN Result([c EXCEPT !.nodes[c.store[key]].value = value], NoValue, TRUE, "", FALSE)
    ELSE Insert(c, key, value, StoreLen(c) = cap)

\* Delete that takes the node out of the list and leaves it in the store.
DeleteOpKeepStore(c, key) ==
    IF key \notin DOMAIN c.store
    THEN Result(c, NoValue, FALSE, "", FALSE)
    ELSE Result(Collect(removeFromList(c, c.store[key]), {}), NoValue, TRUE, "", FALSE)

\* Delete without the test of ok: on a miss existing is nil and
\* removeFromList dereferences it.
DeleteOpNoTest(c, key) ==
    IF key \notin DOMAIN c.store
    THEN Result(c, NoValue, FALSE, "", TRUE)
    ELSE LET existing == c.store[key]
             c1 == removeFromList(c, existing)
             c2 == [c1 EXCEPT !.store = MapDelete(c1.store, c1.nodes[existing].key)]
         IN  Result(Collect(c2, {}), NoValue, TRUE, "", FALSE)

\* Delete, between Lock and Unlock.
DeleteOp(c, key) ==
    IF key \notin DOMAIN c.store
    THEN Result(c, NoValue, FALSE, "", FALSE)
    ELSE LET existing == c.store[key]
             c1 == removeFromList(c, existing)
             c2 == [c1 EXCEPT !.store = MapDelete(c1.store, c1.nodes[existing].key)]
         IN  Result(Collect(c2, {}), NoValue, TRUE, "", FALSE)

\* The keys of the list from head following next, at most n of them.
RECURSIVE Walk(_, _, _)
Walk(c, at, n) ==
    IF n = 0 \/ at = NoNode \/ at \notin DOMAIN c.nodes THEN <<>>
    ELSE <<at>> \o (IF c.nodes[at].next = c.head THEN <<>>
                    ELSE Walk(c, c.nodes[at].next, n - 1))

\* The addresses of the ring, head first.
Ring(c) == Walk(c, c.head, Cardinality(DOMAIN c.nodes))

\* The keys of the ring, head (most recently used) first.
RingKeys(c) ==
    LET ring == Ring(c)
    IN  [i \in 1 .. Len(ring) |-> c.nodes[ring[i]].key]

\* The key of the tail node, head.prev.
TailKey(c) == c.nodes[c.nodes[c.head].prev].key

\* The loop of verifyIntegrity: the error it ends with ("nil" for none) and
\* the nodes it visited.
RECURSIVE Traverse(_, _, _, _)
Traverse(c, current, visited, nodeCount) ==
    IF current = NoNode
    THEN [err |-> "unexpected nil, cache is not empty", visited |-> visited]
    ELSE IF current \in visited
    THEN [err |-> IF nodeCount # StoreLen(c)
                  THEN "circular list size doesn't match store size"
                  ELSE "nil",
          visited |-> visited]
    ELSE LET n == c.nodes[current]
         IN  IF n.next = NoNode \/ n.prev = NoNode
             THEN [err |-> "node has nil pointer", visited |-> visited]
             ELSE IF c.nodes[n.next].prev # current
             THEN [err |-> "broken bidirectional link: node.next.prev != node",
                   visited |-> visited]
             ELSE IF c.nodes[n.prev].next # current
             THEN [err |-> "broken bidirectional link: node.prev.next != node",
                   visited |-> visited]
             ELSE IF n.key \notin DOMAIN c.store
             THEN [err |-> "node exists in list but not in store", visited |-> visited]
             ELSE IF c.store[n.key] # current
             THEN [err |-> "store points to different node", visited |-> visited]
             ELSE IF nodeCount + 1 > StoreLen(c)
             THEN [err |-> "circular list appears to have more nodes than store",
                   visited |-> visited \cup {current}]
             ELSE Traverse(c, n.next, visited \cup {current}, nodeCount + 1)

\* verifyIntegrity: "nil" or the error it returns.
verifyIntegrity(c, cap) ==
    IF StoreLen(c) = 0
    THEN IF c.head # NoNode THEN "empty cache should have nil head" ELSE "nil"
    ELSE IF StoreLen(c) > cap
    THEN "cache size exceeds capacity"
    ELSE LET r == Traverse(c, c.head, {}, 0)
         IN  IF r.err # "nil" THEN r.err
             ELSE IF \E k \in DOMAIN c.store : c.store[k] \notin r.visited
             THEN "node exists in store but not in list"
             ELSE "nil"

\* ------------------------------------------------------- the single caller
\* One completed call, as the caller sees it.
Entry(op, key, value, res, n) ==
    [op |-> op, key |-> key, value |-> value, ret |-> res.value, ok |-> res.ok,
     evicted |-> res.evicted, n |-> n]

\* hist keeps the call before the last one and the last one.
Remember(e) ==
    hist' = IF hist = <<>> THEN <<e>> ELSE <<hist[Len(hist)], e>>

Broken == [ok |-> FALSE, sets |-> <<>>]
Fresh == [ok |-> TRUE, sets |-> <<>>]

\* The keys of s without k, order kept.
Without(s, k) == SelectSeq(s, LAMBDA x : x # k)

\* NewCache that takes capacity 0.
InvalidCapacityNegative(cap) == cap < 0

\* if capacity <= 0: NewCache returns nil and an error.
InvalidCapacity(cap) == cap <= 0

\* NewCache: an error and no cache for a capacity that is not positive.
Init ==
    /\ given \in Capacities
    /\ made = ~InvalidCapacity(given)
    /\ capacity = IF InvalidCapacity(given) THEN 0 ELSE given
    /\ nodes = <<>>
    /\ head = NoNode
    /\ store = <<>>
    /\ abs = [nodes |-> <<>>, head |-> NoNode, store |-> <<>>]
    /\ mutex = Unlocked
    /\ panicked = FALSE
    /\ hist = <<>>
    /\ run = Fresh
    /\ uses = <<>>
    /\ read = {}
    /\ pc = [t \in Threads |-> "idle"]
    /\ call = [t \in Threads |-> <<>>]

Install(res) ==
    /\ nodes' = res.cache.nodes
    /\ head' = res.cache.head
    /\ store' = res.cache.store
    /\ panicked' = res.panic
    /\ UNCHANGED <<capacity, made, given>>

Callable == made /\ ~panicked

Get(key) ==
    LET res == GetOp(Cache, key)
    IN  /\ Callable
        /\ Install(res)
        /\ Remember(Entry("Get", key, NoValue, res, 0))
        /\ run' = IF DOMAIN res.cache.store = {} THEN Fresh ELSE Broken
        /\ uses' = IF res.ok THEN <<key>> \o Without(uses, key) ELSE uses
        /\ read' = IF res.ok THEN read \cup {key} ELSE read
        /\ UNCHANGED tvars

Set(key, value) ==
    LET res == SetOp(Cache, capacity, key, value)
    IN  /\ Callable
        /\ Install(res)
        /\ Remember(Entry("Set", key, value, res, 0))
        /\ run' = IF run.ok /\ Len(run.sets) < MaxRun
                  THEN [run EXCEPT !.sets = Append(@, [key |-> key, value |-> value])]
                  ELSE Broken
        /\ uses' = IF res.ok THEN uses
                   ELSE <<key>> \o Without(uses, res.evicted)
        /\ read' = IF res.ok THEN read ELSE read \ {res.evicted}
        /\ UNCHANGED tvars

Delete(key) ==
    LET res == DeleteOp(Cache, key)
    IN  /\ Callable
        /\ Install(res)
        /\ Remember(Entry("Delete", key, NoValue, res, 0))
        /\ run' = IF DOMAIN res.cache.store = {} THEN Fresh ELSE Broken
        /\ uses' = Without(uses, key)
        /\ read' = read \ {key}
        /\ UNCHANGED tvars

\* Capacity returns cache.capacity.
Capacity ==
    /\ Callable
    /\ Remember(Entry("Capacity", "", NoValue, Result(Cache, NoValue, TRUE, "", FALSE), capacity))
    /\ UNCHANGED <<cvars, run, uses, read, tvars>>

\* Len returns len(cache.store).
LenCall ==
    /\ Callable
    /\ Remember(Entry("Len", "", NoValue, Result(Cache, NoValue, TRUE, "", FALSE), StoreLen(Cache)))
    /\ UNCHANGED <<cvars, run, uses, read, tvars>>

Next ==
    \/ \E key \in Keys : Get(key)
    \/ \E key \in Keys, value \in Values : Set(key, value)
    \/ \E key \in Keys : Delete(key)
    \/ Capacity
    \/ LenCall

Spec == Init /\ [][Next]_vars

\* ------------------------------------------------------ concurrent callers
\* A thread's call: its arguments, its local variables (node is Get's node,
\* Set's existing or tail, Delete's existing; newNode the node just added),
\* its results, and want, what the same call gives when the calls run one
\* after the other in the order they took the mutex.
NewCall(op, key, value) ==
    [op |-> op, key |-> key, value |-> value, node |-> NoNode, newNode |-> NoNode,
     ret |-> NoValue, ok |-> FALSE, n |-> 0, want |-> [value |-> NoValue, ok |-> FALSE]]

\* The nodes the local variables of the threads other than t point to.
Locals(t) ==
    UNION {IF call[u] = <<>> THEN {} ELSE {call[u].node, call[u].newNode} :
             u \in Threads \ {t}}

\* mutex.Lock() that does not wait for the mutex to be free.
CanLockAlways(m) == TRUE

\* mutex.Lock() returns only when no thread holds the mutex.
CanLock(m) == m = Unlocked

Goto(t, label) == pc' = [pc EXCEPT ![t] = label]

SetCache(c) ==
    /\ nodes' = c.nodes
    /\ head' = c.head
    /\ store' = c.store

\* A thread enters Get, Set or Delete.
Enter(t, op, key, value) ==
    /\ Callable
    /\ pc[t] = "idle"
    /\ call' = [call EXCEPT ![t] = NewCall(op, key, value)]
    /\ Goto(t, "lock")
    /\ UNCHANGED <<cvars, gvars, mutex, abs>>

\* A thread enters Len or Capacity, which take no lock.
EnterRead(t, op) ==
    /\ Callable
    /\ pc[t] = "idle"
    /\ call' = [call EXCEPT ![t] = NewCall(op, "", NoValue)]
    /\ Goto(t, "read")
    /\ UNCHANGED <<cvars, gvars, mutex, abs>>

\* cache.mutex.Lock()
Lock(t) ==
    LET c == call[t]
        res == IF c.op = "Get" THEN GetOp(abs, c.key)
               ELSE IF c.op = "Set" THEN SetOp(abs, capacity, c.key, c.value)
               ELSE DeleteOp(abs, c.key)
    IN  /\ Callable
        /\ pc[t] = "lock"
        /\ CanLock(mutex)
        /\ mutex' = t
        /\ abs' = res.cache
        /\ call' = [call EXCEPT ![t].want = [value |-> res.value, ok |-> res.ok]]
        /\ Goto(t, "lookup")
        /\ UNCHANGED <<cvars, gvars>>

\* The lookup whose early return on a miss leaves without running the
\* deferred Unlock.
LookupNoUnlock(t) ==
    LET c == call[t]
        ok == c.key \in DOMAIN store
    IN  /\ Callable
        /\ pc[t] = "lookup"
        /\ call' = [call EXCEPT ![t].node = IF ok THEN store[c.key] ELSE NoNode]
        /\ Goto(t, IF c.op = "Set" THEN (IF ok THEN "update" ELSE "full")
                   ELSE IF ok THEN "remove" ELSE "idle")
        /\ UNCHANGED <<cvars, gvars, mutex, abs>>

\* node, ok := cache.store[key]  and the test of ok that follows it.
Lookup(t) ==
    LET c == call[t]
        ok == c.key \in DOMAIN store
    IN  /\ Callable
        /\ pc[t] = "lookup"
        /\ call' = [call EXCEPT ![t].node = IF ok THEN store[c.key] ELSE NoNode]
        /\ Goto(t, IF c.op = "Set" THEN (IF ok THEN "update" ELSE "full")
                   ELSE IF ok THEN "remove" ELSE "unlock")
        /\ UNCHANGED <<cvars, gvars, mutex, abs>>

\* existing.value = value; return true
Update(t) ==
    /\ Callable
    /\ pc[t] = "update"
    /\ nodes' = [nodes EXCEPT ![call[t].node].value = call[t].value]
    /\ call' = [call EXCEPT ![t].ok = TRUE]
    /\ Goto(t, "unlock")
    /\ UNCHANGED <<head, capacity, store, made, panicked, given, gvars, mutex, abs>>

\* if len(cache.store) == cache.capacity
Full(t) ==
    /\ Callable
    /\ pc[t] = "full"
    /\ Goto(t, IF StoreLen(Cache) = capacity THEN "tail" ELSE "addToTail")
    /\ UNCHANGED <<cvars, gvars, mutex, call, abs>>

\* tail := cache.head.prev
ReadTail(t) ==
    /\ Callable
    /\ pc[t] = "tail"
    /\ IF head = NoNode
       THEN /\ panicked' = TRUE
            /\ UNCHANGED <<call, pc>>
       ELSE /\ call' = [call EXCEPT ![t].node = nodes[head].prev]
            /\ Goto(t, "remove")
            /\ UNCHANGED panicked
    /\ UNCHANGED <<nodes, head, capacity, store, made, given, gvars, mutex, abs>>

\* cache.removeFromList(node)
Remove(t) ==
    /\ Callable
    /\ pc[t] = "remove"
    /\ SetCache(removeFromList(Cache, call[t].node))
    /\ Goto(t, IF call[t].op = "Get" THEN "addToHead" ELSE "delete")
    /\ UNCHANGED <<capacity, made, panicked, given, gvars, mutex, call, abs>>

\* delete(cache.store, tail.key) in Set, delete(cache.store, existing.key)
\* and return true in Delete
MapDel(t) ==
    /\ Callable
    /\ pc[t] = "delete"
    /\ store' = MapDelete(store, nodes[call[t].node].key)
    /\ call' = [call EXCEPT ![t].ok = (call[t].op = "Delete")]
    /\ Goto(t, IF call[t].op = "Set" THEN "addToTail" ELSE "unlock")
    /\ UNCHANGED <<nodes, head, capacity, made, panicked, given, gvars, mutex, abs>>

\* newNode := cache.addToHead(key, node.value)
AddHead(t) ==
    LET r == addToHead(Cache, call[t].key, nodes[call[t].node].value)
    IN  /\ Callable
        /\ pc[t] = "addToHead"
        /\ SetCache(r.cache)
        /\ call' = [call EXCEPT ![t].newNode = r.node]
        /\ Goto(t, "put")
        /\ UNCHANGED <<capacity, made, panicked, given, gvars, mutex, abs>>

\* node := cache.addToTail(key, value)
AddTail(t) ==
    LET r == addToTail(Cache, call[t].key, call[t].value)
    IN  /\ Callable
        /\ pc[t] = "addToTail"
        /\ SetCache(r.cache)
        /\ call' = [call EXCEPT ![t].newNode = r.node]
        /\ Goto(t, "put")
        /\ UNCHANGED <<capacity, made, panicked, given, gvars, mutex, abs>>

\* cache.store[key] = newNode and the return statement after it
Put(t) ==
    LET c == call[t]
    IN  /\ Callable
        /\ pc[t] = "put"
        /\ store' = MapPut(store, c.key, c.newNode)
        /\ call' = [call EXCEPT
              ![t].ret = IF c.op = "Get" THEN nodes[c.node].value ELSE NoValue,
              ![t].ok = (c.op = "Get")]
        /\ Goto(t, "unlock")
        /\ UNCHANGED <<nodes, head, capacity, made, panicked, given, gvars, mutex, abs>>

\* defer cache.mutex.Unlock(): the call returns and its local variables die.
Unlock(t) ==
    /\ Callable
    /\ pc[t] = "unlock"
    /\ mutex' = Unlocked
    /\ SetCache(Collect(Cache, Locals(t)))
    /\ call' = [call EXCEPT ![t] = <<>>]
    /\ Goto(t, "idle")
    /\ UNCHANGED <<capacity, made, panicked, given, gvars, abs>>

\* return len(cache.store)  and  return cache.capacity
Read(t) ==
    /\ Callable
    /\ pc[t] = "read"
    /\ call' = [call EXCEPT ![t].n = IF call[t].op = "Len" THEN StoreLen(Cache)
                                     ELSE capacity]
    /\ Goto(t, "return")
    /\ UNCHANGED <<cvars, gvars, mutex, abs>>

\* Len or Capacity returns.
Return(t) ==
    /\ Callable
    /\ pc[t] = "return"
    /\ call' = [call EXCEPT ![t] = <<>>]
    /\ Goto(t, "idle")
    /\ UNCHANGED <<cvars, gvars, mutex, abs>>

NextC ==
    \E t \in Threads :
        \/ \E key \in SharedKeys : Enter(t, "Get", key, NoValue)
        \/ \E key \in SharedKeys, value \in Values : Enter(t, "Set", key, value)
        \/ \E key \in SharedKeys : Enter(t, "Delete", key, NoValue)
        \/ EnterRead(t, "Len")
        \/ EnterRead(t, "Capacity")
        \/ Lock(t)
        \/ Lookup(t)
        \/ Update(t)
        \/ Full(t)
        \/ ReadTail(t)
        \/ Remove(t)
        \/ MapDel(t)
        \/ AddHead(t)
        \/ AddTail(t)
        \/ Put(t)
        \/ Unlock(t)
        \/ Read(t)
        \/ Return(t)

SpecC == Init /\ [][NextC]_vars

\* The steps of a call of thread t that has the mutex or needs none.
Running(t) ==
    \/ Lookup(t) \/ Update(t) \/ Full(t) \/ ReadTail(t) \/ Remove(t)
    \/ MapDel(t) \/ AddHead(t) \/ AddTail(t) \/ Put(t) \/ Unlock(t)
    \/ Read(t) \/ Return(t)

\* Thread t, waiting in mutex.Lock(), gets the mutex: what a step Lock(t)
\* does to mutex and pc.
Acquire(t) ==
    /\ pc[t] = "lock"
    /\ CanLock(mutex)
    /\ mutex' = t
    /\ Goto(t, "lookup")

\* The concurrent callers under a fair scheduler and a fair mutex: a thread
\* that can run does run (the Go scheduler preempts), and a thread that waits
\* in Lock() while the mutex is free again and again gets it (sync.Mutex
\* hands the mutex to a waiter that has waited long).
SpecF ==
    /\ SpecC
    /\ \A t \in Threads : WF_vars(Running(t)) /\ SF_<<mutex, pc>>(Acquire(t))

\* ------------------------------------------------------------------ claims
\* What the caller gets from Get(key) in the present state.
Found(key) == GetOp(Cache, key).ok
Got(key) == GetOp(Cache, key).value

\* The last completed call of the single caller, and the one before it.
Last == hist[Len(hist)]
Before == hist[1]

\* run holds n Set calls on pairwise distinct keys, made on a cache that was
\* empty, with no Get or Delete in between.
DistinctRun(n) ==
    /\ made
    /\ run.ok
    /\ Len(run.sets) = n
    /\ \A i, j \in 1 .. n : i # j => run.sets[i].key # run.sets[j].key

LRUKey == uses[Len(uses)]

\* The cached keys not read since their insertion, most recently inserted first.
Unread == SelectSeq(uses, LAMBDA k : k \notin read)

\* The key the code's order puts at the tail: the most recently inserted key
\* that no Get has read since, and, when every key has been read, the key
\* whose last successful Get is the oldest.
Candidate == IF Unread # <<>> THEN Unread[1] ELSE LRUKey

\* A step that is a call of Set; hist' holds its key and value.
SetStep == hist' # <<>> /\ Last'.op = "Set" /\ Set(Last'.key, Last'.value)

\* A step that is a Set of a new key into a full cache.
Evicting ==
    /\ SetStep
    /\ Last'.key \notin DOMAIN store
    /\ StoreLen(Cache) = capacity

\* A step that is a Set of a cached key.
Updating == SetStep /\ Last'.key \in DOMAIN store

UpdateRun ==
    /\ made /\ capacity = 2 /\ run.ok /\ Len(run.sets) = 4
    /\ run.sets[3].key = run.sets[1].key
    /\ run.sets[2].key # run.sets[1].key
    /\ run.sets[4].key \notin {run.sets[1].key, run.sets[2].key}

C5_UpdatePromotes ==
    [][(/\ made /\ capacity = 2 /\ Len(hist) = 2
        /\ Before.op = "Get" /\ Before.ok
        /\ Last.op = "Set" /\ Last.ok /\ Last.key # Before.key
        /\ DOMAIN store = {Last.key, Before.key}
        /\ Evicting)
       => /\ ~GetOp(Cache', Before.key).ok
          /\ GetOp(Cache', Last.key).ok]_vars

\* C6: in a full cache of capacity at least 2, the Set of a new key that
\* directly follows a successful Get(k) evicts a key other than k; with
\* capacity 2 the cache then holds exactly k and the new key.
C6_ReadKeySurvives ==
    [][(/\ made /\ capacity >= 2 /\ hist # <<>>
        /\ Last.op = "Get" /\ Last.ok
        /\ Evicting)
       => /\ Last'.evicted \notin {"", Last.key}
          /\ GetOp(Cache', Last.key).ok
          /\ GetOp(Cache', Last.key).value = Last.ret
          /\ ~GetOp(Cache', Last'.evicted).ok
          /\ capacity = 2 => DOMAIN store' = {Last.key, Last'.key}]_vars

C6_Witness ==
    /\ made /\ capacity >= 2 /\ Len(hist) = 2
    /\ Before.op = "Get" /\ Before.ok
    /\ Last.op = "Set" /\ ~Last.ok /\ Last.evicted # ""
    /\ Before.key \in DOMAIN store

\* C10: after every completed call the store holds at most capacity keys,
\* Len() returns their number, capacity is the value given to NewCache, and
\* head is nil exactly when the store is empty.
C10_SizeAndHead ==
    made =>
        /\ StoreLen(Cache) <= capacity
        /\ capacity = given
        /\ (head = NoNode) <=> (DOMAIN store = {})
        /\ hist # <<>> /\ Last.op = "Len" => Last.n = StoreLen(Cache)
        /\ hist # <<>> /\ Last.op = "Capacity" => Last.n = given

C10_Witness ==
    /\ made /\ capacity = 2 /\ StoreLen(Cache) = capacity
    /\ Len(hist) = 2 /\ Last.op = "Len" /\ Last.n = 2
    /\ Before.op = "Set" /\ Before.evicted # ""

\* The steps of thread t that read or write the store or the list.
Touches(t) ==
    \/ Lookup(t) \/ Update(t) \/ Full(t) \/ ReadTail(t) \/ Remove(t)
    \/ MapDel(t) \/ AddHead(t) \/ AddTail(t) \/ Put(t)
    \/ (Read(t) /\ call[t].op = "Len")

\* Thread u holds the mutex and is at a statement that writes the store or
\* the list, or between two of them.
Mutating(u) ==
    /\ mutex = u
    /\ pc[u] \in {"update", "remove", "delete", "addToHead", "addToTail", "put"}

\* C7: every public operation, Len and Capacity included, takes the mutex
\* before it reads or writes the store or the list; hence no step of a
\* thread reads or writes them while another thread is inside a mutating
\* critical section.
C7_NoAccessDuringMutation ==
    [][\A t \in Threads : Touches(t) =>
          \A u \in Threads \ {t} : ~Mutating(u)]_vars

\* C8: every Get, Set and Delete returns what it returns when the calls run
\* one at a time in the order in which they took the mutex (abs is the cache
\* of that sequential run, want its result); a call takes the mutex between
\* its invocation and its return, so the order agrees with real time.  When
\* no call holds the mutex the cache is the cache of the sequential run.
C8_Linearizable ==
    /\ \A t \in Threads : pc[t] = "unlock" =>
          /\ call[t].ret = call[t].want.value
          /\ call[t].ok = call[t].want.ok
    /\ mutex = Unlocked => Collect(Cache, {}) = abs

\* Two calls overlap: t is about to return from a Set that found the key
\* absent while u, invoked before t returns, waits for the mutex.
C8_Witness ==
    \E t, u \in Threads :
        /\ t # u
        /\ pc[t] = "unlock" /\ call[t].op = "Set" /\ ~call[t].ok
        /\ pc[u] = "lock" /\ call[u].op = "Get" /\ call[u].key = call[t].key
        /\ StoreLen(Cache) = capacity

\* C9: under any interleaving of the threads' calls no nil pointer is
\* dereferenced, verifyIntegrity passes once all calls have returned, and a
\* call that has taken the mutex finds a cache that passes verifyIntegrity
\* (no duplicate key, no node in the ring and not in the store or the other
\* way round).
C9_IntegrityUnderConcurrency ==
    /\ ~panicked
    /\ (\A t \in Threads : pc[t] \in {"idle", "lock", "read", "return"}) =>
          verifyIntegrity(Cache, capacity) = "nil"
    /\ \A t \in Threads : pc[t] = "lookup" =>
          verifyIntegrity(Cache, capacity) = "nil"

\* A Get has taken the mutex after an evicting Set of another thread has
\* returned, while that thread's next Set waits.
C9_Witness ==
    \E t, u \in Threads :
        /\ t # u
        /\ pc[t] = "lookup" /\ call[t].op = "Get"
        /\ pc[u] = "lock" /\ call[u].op = "Set"
        /\ StoreLen(Cache) = capacity
        /\ StoreLen(abs) = capacity
        /\ call[u].key \notin DOMAIN store

\* The nodes the store points to.
Range(f) == {f[x] : x \in DOMAIN f}

\* The cache holds at least one key.
NonEmpty == made /\ DOMAIN store # {}

\* C11: after every completed call on a non-empty cache, following next from
\* head visits exactly len(store) distinct nodes and comes back to head, no
\* prev or next of a visited node is nil, and every visited node n has
\* n.next.prev = n and n.prev.next = n; a single node is linked to itself.
C11_RingIsOneCycle ==
    NonEmpty =>
        LET ring == Ring(Cache)
        IN  /\ head \in DOMAIN nodes
            /\ Len(ring) = StoreLen(Cache)
            /\ \A i, j \in 1 .. Len(ring) : i # j => ring[i] # ring[j]
            /\ nodes[ring[Len(ring)]].next = head
            /\ \A i \in 1 .. Len(ring) :
                  LET n == nodes[ring[i]]
                  IN  /\ n.next \in DOMAIN nodes
                      /\ n.prev \in DOMAIN nodes
                      /\ nodes[n.next].prev = ring[i]
                      /\ nodes[n.prev].next = ring[i]
            /\ StoreLen(Cache) = 1 =>
                  nodes[head].next = head /\ nodes[head].prev = head
            /\ StoreLen(Cache) = 2 =>
                  nodes[head].next = nodes[head].prev /\ nodes[head].next # head

\* A cache of capacity 1 holds the one node left by an evicting Set.
C11_Witness ==
    /\ NonEmpty /\ capacity = 1
    /\ Last.op = "Set" /\ Last.evicted # ""
    /\ nodes[head].next = head /\ nodes[head].prev = head

\* C12: after every completed call, every key k of the store maps to a node
\* with key k that is reachable from head, every node reachable from head is
\* the node the store holds for its key, and no key is twice in the ring.
C12_StoreAndListAgree ==
    made =>
        LET ring == Ring(Cache)
            inRing == {ring[i] : i \in 1 .. Len(ring)}
        IN  /\ \A k \in DOMAIN store :
                  /\ store[k] \in DOMAIN nodes
                  /\ nodes[store[k]].key = k
                  /\ store[k] \in inRing
            /\ \A n \in inRing :
                  /\ nodes[n].key \in DOMAIN store
                  /\ store[nodes[n].key] = n
            /\ \A i, j \in 1 .. Len(ring) :
                  i # j => nodes[ring[i]].key # nodes[ring[j]].key

\* Two successful Gets in a row, each of which replaced the node of its key.
C12_Witness ==
    /\ made /\ Len(hist) = 2 /\ StoreLen(Cache) = 2
    /\ Before.op = "Get" /\ Before.ok
    /\ Last.op = "Get" /\ Last.ok /\ Last.key # Before.key
    /\ store[Last.key] = head

\* C13: a Get(k) that directly follows Set(k, v) returns (v, true), whether
\* the Set inserted k, updated it, or evicted another key.
C13_SetThenGet ==
    (/\ made /\ Len(hist) = 2
     /\ Before.op = "Set"
     /\ Last.op = "Get" /\ Last.key = Before.key)
    => Last.ok /\ Last.ret = Before.value

\* Get(k) after a Set(k, v) that evicted another key from a full cache of
\* capacity 2.
C13_Witness ==
    /\ made /\ capacity = 2 /\ Len(hist) = 2
    /\ Before.op = "Set" /\ ~Before.ok /\ Before.evicted # ""
    /\ Last.op = "Get" /\ Last.key = Before.key /\ Last.ret = Before.value

\* The content of the cache: the value held for every cached key.
Contents(c) == [k \in DOMAIN c.store |-> c.nodes[c.store[k]].value]

\* A step that is a call of Get; hist' holds its key.
GetStep == hist' # <<>> /\ Last'.op = "Get" /\ Get(Last'.key)

\* C14: two Get(k) calls in a row return the same value and the same flag,
\* and a Get changes neither Len nor the value held for any key.
C14_RepeatedGet ==
    /\ []((/\ made /\ Len(hist) = 2
           /\ Before.op = "Get"
           /\ Last.op = "Get" /\ Last.key = Before.key)
          => Last.ret = Before.ret /\ Last.ok = Before.ok)
    /\ [][GetStep =>
             /\ Contents(Cache') = Contents(Cache)
             /\ StoreLen(Cache') = StoreLen(Cache)]_vars

\* Two successful Get(k) in a row on a cache of two keys.
C14_Witness ==
    /\ made /\ Len(hist) = 2 /\ StoreLen(Cache) = 2
    /\ Before.op = "Get" /\ Before.ok
    /\ Last.op = "Get" /\ Last.ok /\ Last.key = Before.key
    /\ Last.ret = Before.ret /\ Last.ret # NoValue

\* A step that is a call of Delete; hist' holds its key.
DeleteStep == hist' # <<>> /\ Last'.op = "Delete" /\ Delete(Last'.key)

C16_MissChangesNothing ==
    [][((GetStep \/ DeleteStep) /\ Last'.key \notin DOMAIN store) =>
          /\ ~Last'.ok
          /\ Last'.ret = NoValue
          /\ UNCHANGED cvars
          /\ Ring(Cache') = Ring(Cache)
          /\ StoreLen(Cache') = StoreLen(Cache)]_vars

\* Get and then Delete have missed on a cache that holds no key.
C16_Witness ==
    /\ made /\ head = NoNode /\ store = <<>> /\ Len(hist) = 2
    /\ Before.op = "Get" /\ ~Before.ok /\ Before.ret = NoValue
    /\ Last.op = "Delete" /\ ~Last.ok

\* C17: NewCache(capacity) returns an error and no cache exactly when
\* capacity <= 0; for capacity >= 1 the cache it returns has an empty store, a
\* nil head, Len 0, a free mutex and Capacity equal to the argument; and no
\* call on a cache fails afterwards.
C17_ConstructorErrors ==
    /\ made <=> given >= 1
    /\ (made /\ hist = <<>>) =>
          /\ store = <<>>
          /\ head = NoNode
          /\ nodes = <<>>
          /\ StoreLen(Cache) = 0
          /\ capacity = given
          /\ mutex = Unlocked
    /\ made => capacity = given
    /\ ~panicked

\* NewCache(1) has returned a cache and no call has been made on it.
C17_Witness ==
    /\ made /\ given = 1 /\ hist = <<>>
    /\ capacity = 1 /\ StoreLen(Cache) = 0 /\ head = NoNode

\* C18: Set(k, v) returns true exactly when k is cached just before the call
\* and false exactly when the call inserts k with a new node; a Set of k that
\* directly follows the Delete of k or the eviction of k returns false.
C18_SetReportsUpdate ==
    /\ [][SetStep =>
             /\ Last'.ok <=> Last'.key \in DOMAIN store
             /\ ~Last'.ok <=> (/\ Last'.key \notin DOMAIN store
                               /\ Last'.key \in DOMAIN store'
                               /\ store'[Last'.key] \notin Range(store))]_vars
    /\ []((made /\ Len(hist) = 2 /\ Last.op = "Set" /\ Last.key = Before.key
              /\ Before.op = "Delete")
          => ~Last.ok)
    /\ []((made /\ Len(hist) = 2 /\ Last.op = "Set" /\ Before.op = "Set"
              /\ Before.evicted = Last.key)
          => ~Last.ok)

\* Set(k, v) has returned false directly after Delete(k) removed k.
C18_Witness ==
    /\ made /\ Len(hist) = 2
    /\ Before.op = "Delete" /\ Before.ok
    /\ Last.op = "Set" /\ Last.key = Before.key /\ ~Last.ok
    /\ StoreLen(Cache) = 2

\* C20: a Set of a new key evicts exactly when Len equals capacity before the
\* call.  When the cache is full it removes one entry, the node at head.prev,
\* from the ring and from the store; that entry's key is not the new key and
\* Len stays at capacity.  When it is not full it removes nothing, every
\* cached key keeps its node and its value, and Len grows by one.
C20_EvictsIffFull ==
    [][(SetStep /\ Last'.key \notin DOMAIN store) =>
          IF StoreLen(Cache) = capacity
          THEN /\ Last'.evicted # ""
               /\ Last'.evicted = TailKey(Cache)
               /\ Last'.evicted # Last'.key
               /\ DOMAIN store' = ((DOMAIN store) \ {TailKey(Cache)}) \cup {Last'.key}
               /\ nodes[head].prev \notin Range(store')
               /\ \A i \in 1 .. Len(Ring(Cache')) : Ring(Cache')[i] # nodes[head].prev
               /\ StoreLen(Cache') = capacity
               /\ \A k \in (DOMAIN store) \ {TailKey(Cache)} :
                     store'[k] = store[k] /\ nodes'[store'[k]].value = nodes[store[k]].value
          ELSE /\ Last'.evicted = ""
               /\ DOMAIN store' = (DOMAIN store) \cup {Last'.key}
               /\ StoreLen(Cache') = StoreLen(Cache) + 1
               /\ \A k \in DOMAIN store :
                     store'[k] = store[k] /\ nodes'[store'[k]].value = nodes[store[k]].value]_vars

\* A Set that filled a cache of capacity 2 without evicting, and then a Set
\* of another new key that evicted.
C20_Witness ==
    /\ made /\ capacity = 2 /\ Len(hist) = 2
    /\ Before.op = "Set" /\ ~Before.ok /\ Before.evicted = ""
    /\ Last.op = "Set" /\ ~Last.ok /\ Last.evicted \notin {"", Last.key}
    /\ StoreLen(Cache) = capacity

\* The statements of Get, Set and Delete between Lock and Unlock.
Critical ==
    {"lookup", "update", "full", "tail", "remove", "delete", "addToHead",
     "addToTail", "put", "unlock"}

\* C19: the mutex is held only by a thread that is inside Get, Set or Delete
\* and on its way to Unlock, on the early returns as on the normal ones; a
\* thread inside a call never waits for a lock it holds; whenever a call is
\* in progress some call can take a step (no deadlock); and, with a fair
\* mutex, every call that was invoked returns.
C19_LockReleased ==
    /\ [](\A t \in Threads :
            /\ mutex = t <=> pc[t] \in Critical
            /\ pc[t] = "lock" => mutex # t)
    /\ []((made /\ \E t \in Threads : pc[t] # "idle") =>
            ENABLED (\E t \in Threads : Lock(t) \/ Running(t)))
    /\ \A t \in Threads : (pc[t] # "idle") ~> (pc[t] = "idle")

\* A Get that missed is about to return through the deferred Unlock while
\* another thread waits in Lock().
C19_Witness ==
    \E t, u \in Threads :
        /\ t # u
        /\ mutex = t /\ pc[t] = "unlock" /\ call[t].op = "Get" /\ ~call[t].ok
        /\ pc[u] = "lock"

\* The nodes of the ring.
RingSet(c) == {Ring(c)[i] : i \in 1 .. Len(Ring(c))}

\* A step that is a Set of a key that is not cached.
Inserting == SetStep /\ Last'.key \notin DOMAIN store

C23_RefinesMap ==
    /\ []((made /\ hist = <<>>) => Contents(Cache) = <<>>)
    /\ [][hist' # <<>> =>
             LET before == Contents(Cache)
                 after == Contents(Cache')
                 \* the call this step makes
                 e == Last'
             IN  IF e.op = "Set"
                 THEN after = MapPut(MapDelete(before, e.evicted), e.key, e.value)
                 ELSE IF e.op = "Get"
                 THEN /\ after = before
                      /\ e.ok <=> e.key \in DOMAIN before
                      /\ e.ok => e.ret = before[e.key]
                      /\ ~e.ok => e.ret = NoValue
                 ELSE IF e.op = "Delete"
                 THEN after = MapDelete(before, e.key)
                 ELSE after = before]_vars
    /\ []((made /\ Len(hist) = 2 /\ Last.op = "Get" /\ Last.ok) =>
            (/\ ~(Before.op = "Delete" /\ Before.key = Last.key)
             /\ ~(Before.op = "Set" /\ Before.evicted = Last.key)
             /\ (Before.op = "Set" /\ Before.key = Last.key) =>
                   Last.ret = Before.value))

\* Get(k) has missed directly after a Set of another key evicted k.
C23_Witness ==
    /\ made /\ capacity = 2 /\ Len(hist) = 2
    /\ Before.op = "Set" /\ Before.evicted # ""
    /\ Last.op = "Get" /\ Last.key = Before.evicted /\ ~Last.ok
    /\ Last.ret = NoValue /\ StoreLen(Cache) = 2

\* The first n pairwise different keys of the Set calls in sets, in order.
RECURSIVE FirstKeys(_, _, _)
FirstKeys(sets, n, seen) ==
    IF n = 0 \/ sets = <<>> THEN seen
    ELSE IF \E i \in 1 .. Len(seen) : seen[i] = sets[1].key
    THEN FirstKeys(Tail(sets), n, seen)
    ELSE FirstKeys(Tail(sets), n - 1, Append(seen, sets[1].key))

C25_NoNilDereference ==
    /\ ~panicked
    /\ made =>
          /\ \A n \in RingSet(Cache) :
                nodes[n].prev \in DOMAIN nodes /\ nodes[n].next \in DOMAIN nodes
          /\ StoreLen(Cache) = capacity =>
                /\ head # NoNode
                /\ head \in DOMAIN nodes
                /\ nodes[head].prev \in RingSet(Cache)
          /\ \A k \in DOMAIN store :
                store[k] # NoNode /\ store[k] \in RingSet(Cache)
          /\ \A k \in Keys :
                /\ ~GetOp(Cache, k).panic
                /\ ~DeleteOp(Cache, k).panic
                /\ \A v \in Values : ~SetOp(Cache, capacity, k, v).panic
          /\ (StoreLen(Cache) = capacity /\ StoreLen(Cache) = 1) =>
                LET c1 == removeFromList(Cache, nodes[head].prev)
                    r == addToTail(c1, "a", "1")
                IN  /\ c1.head = NoNode
                    /\ r.cache.head = r.node
                    /\ r.cache.nodes[r.node].next = r.node
                    /\ r.cache.nodes[r.node].prev = r.node

\* Two evicting Sets in a row on a cache of capacity 1: each emptied the ring
\* before it added its node.
C25_Witness ==
    /\ made /\ capacity = 1 /\ ~panicked /\ Len(hist) = 2
    /\ Before.op = "Set" /\ Before.evicted # ""
    /\ Last.op = "Set" /\ Last.evicted = Before.key
    /\ nodes[head].next = head

====
